---- MODULE Spec2Model ----
(***************************************************************************)
(* Orderbook spread analyzer (src/src/main.cpp): the CSV row parser, the   *)
(* book loader, the depth aggregator, the two VWAP sweeps, calcStats and    *)
(* main.                                                                    *)
(*                                                                          *)
(* A C++ double is modelled as an exact rational [n, d] in lowest terms:    *)
(* the arithmetic below is the arithmetic of the source without binary      *)
(* rounding.  A std::string is a sequence of one-character strings.         *)
(***************************************************************************)
EXTENDS Integers, Sequences, FiniteSets, TLC

VARIABLES
    file,        \* the lines of the CSV file, as std::getline(file, line) yields them
    openable,    \* whether std::ifstream file(filename) opens
    pc,          \* position of main / loadCSV
    pos,         \* number of lines std::getline has consumed
    lineNumber,  \* loadCSV's lineNumber
    book,        \* loadCSV's local Orderbook, then main's book
    exc,         \* the exception in flight or caught (NoExc when none)
    stats,       \* main's stats (NoStats until calcStats has returned)
    out,         \* std::cout: the reports printed
    errOut,      \* std::cerr: the diagnostics printed
    exitCode,    \* the values main has returned: <<>> until it returns
    hist,        \* how often parseRow, calcStats and printStats were called
    call,        \* a direct call of one function: its name and arguments
    ret          \* what that call returned or threw (Pending before it ran)

vars == <<file, openable, pc, pos, lineNumber, book, exc, stats, out, errOut,
          exitCode, hist, call, ret>>

mainVars == <<file, openable, pc, pos, lineNumber, book, exc, stats, out,
              errOut, exitCode, hist>>

-----------------------------------------------------------------------------
(* double, as an exact rational in lowest terms *)

Abs(x) == IF x < 0 THEN -x ELSE x

RECURSIVE GCD(_, _)
GCD(a, b) == IF b = 0 THEN a ELSE GCD(b, a % b)

\* the double n/d (d # 0), in lowest terms with a positive denominator
Dbl(n, d) ==
    LET g == GCD(Abs(n), Abs(d))
        s == IF d < 0 THEN -1 ELSE 1
    IN  [n |-> (s * n) \div g, d |-> (s * d) \div g]

DInt(k)    == [n |-> k, d |-> 1]
DAdd(x, y) == Dbl(x.n * y.d + y.n * x.d, x.d * y.d)
DSub(x, y) == Dbl(x.n * y.d - y.n * x.d, x.d * y.d)
DMul(x, y) == Dbl(x.n * y.n, x.d * y.d)
DDiv(x, y) == Dbl(x.n * y.d, x.d * y.n)
DLt(x, y)  == x.n * y.d < y.n * x.d
DLe(x, y)  == x.n * y.d <= y.n * x.d
DGt(x, y)  == DLt(y, x)
DGe(x, y)  == DLe(y, x)
DMin(x, y) == IF DLt(y, x) THEN y ELSE x
Zero       == DInt(0)

-----------------------------------------------------------------------------
(* std::string helpers *)

ws == {" ", "\t", "\r", "\n"}

Upper == <<"A","B","C","D","E","F","G","H","I","J","K","L","M",
           "N","O","P","Q","R","S","T","U","V","W","X","Y","Z">>
Lower == <<"a","b","c","d","e","f","g","h","i","j","k","l","m",
           "n","o","p","q","r","s","t","u","v","w","x","y","z">>

tolower(c) ==
    IF \E i \in 1..Len(Upper) : Upper[i] = c
    THEN Lower[CHOOSE i \in 1..Len(Upper) : Upper[i] = c]
    ELSE c

Digits == <<"0","1","2","3","4","5","6","7","8","9">>
IsDigit(c)  == \E i \in 1..Len(Digits) : Digits[i] = c
DigitVal(c) == (CHOOSE i \in 1..Len(Digits) : Digits[i] = c) - 1

\* s.find_first_not_of(ws): the 1-based index, or 0 for npos
FindFirstNotOf(s) ==
    IF \E i \in 1..Len(s) : s[i] \notin ws
    THEN CHOOSE i \in 1..Len(s) :
            s[i] \notin ws /\ \A j \in 1..(i - 1) : s[j] \in ws
    ELSE 0

FindLastNotOf(s) ==
    IF \E i \in 1..Len(s) : s[i] \notin ws
    THEN CHOOSE i \in 1..Len(s) :
            s[i] \notin ws /\ \A j \in (i + 1)..Len(s) : s[j] \in ws
    ELSE 0

trim(s) ==
    LET start == FindFirstNotOf(s)
        end   == FindLastNotOf(s)
    IN  IF start = 0 THEN <<>> ELSE SubSeq(s, start, end)

-----------------------------------------------------------------------------
(* exceptions: the type thrown and the parts its what() text is built from *)

NoExc == [type |-> "none"]

EmptyFields(lineNo) ==
    [type |-> "invalid_argument", msg |-> "Line has empty fields",
     line |-> lineNo]

UnknownSide(raw) ==
    [type |-> "invalid_argument", msg |-> "Unknown order side", raw |-> raw]

InvalidValue(fieldName, raw) ==
    [type |-> "invalid_argument", msg |-> "Invalid value for field",
     field |-> fieldName, raw |-> raw]

Returned(v) == [thrown |-> FALSE, value |-> v]
Thrown(e)   == [thrown |-> TRUE, exc |-> e]

-----------------------------------------------------------------------------
(* Row Parser *)

ToLowerStr(s) == [i \in 1..Len(s) |-> tolower(s[i])]

parseSide(raw) ==
    LET s == ToLowerStr(raw)
    IN  IF s = <<"b", "i", "d">> THEN Returned("BID")
        ELSE IF s = <<"a", "s", "k">> THEN Returned("ASK")
        ELSE Thrown(UnknownSide(raw))

RECURSIVE Pow10(_)
Pow10(k) == IF k = 0 THEN 1 ELSE 10 * Pow10(k - 1)

\* how many decimal digits s holds from index i on
RECURSIVE DigitRun(_, _)
DigitRun(s, i) ==
    IF i <= Len(s) /\ IsDigit(s[i]) THEN 1 + DigitRun(s, i + 1) ELSE 0

\* the value of the k decimal digits of s that start at index i
RECURSIVE DigitsValue(_, _, _)
DigitsValue(s, i, k) ==
    IF k = 0 THEN 0
    ELSE 10 * DigitsValue(s, i, k - 1) + DigitVal(s[i + k - 1])

StartsWith(s, i, word) ==
    /\ i + Len(word) - 1 <= Len(s)
    /\ ToLowerStr(SubSeq(s, i, i + Len(word) - 1)) = word

\* std::stod on a text without exponent or hexadecimal marker: an optional
\* sign, then "inf", "nan", or digits with an optional fraction; the longest
\* such prefix is converted and what follows it is ignored.  No conversion
\* makes stod throw.
stod(raw) ==
    LET signed == Len(raw) >= 1 /\ raw[1] \in {"+", "-"}
        sign   == IF signed /\ raw[1] = "-" THEN -1 ELSE 1
        b      == IF signed THEN 2 ELSE 1
        ni     == DigitRun(raw, b)
        dot    == b + ni <= Len(raw) /\ raw[b + ni] = "."
        nf     == IF dot THEN DigitRun(raw, b + ni + 1) ELSE 0
    IN  IF StartsWith(raw, b, <<"i", "n", "f">>)
            THEN [thrown |-> FALSE, finite |-> FALSE, value |-> "inf"]
        ELSE IF StartsWith(raw, b, <<"n", "a", "n">>)
            THEN [thrown |-> FALSE, finite |-> FALSE, value |-> "nan"]
        ELSE IF ni + nf = 0
            THEN [thrown |-> TRUE]
        ELSE [thrown |-> FALSE, finite |-> TRUE,
              value |-> Dbl(sign * (DigitsValue(raw, b, ni) * Pow10(nf)
                                    + DigitsValue(raw, b + ni + 1, nf)),
                            Pow10(nf))]

parseDouble(raw, fieldName) ==
    LET r == stod(raw)
    IN  IF r.thrown THEN Thrown(InvalidValue(fieldName, raw))
        ELSE IF ~r.finite \/ DLe(r.value, Zero)
            THEN Thrown(InvalidValue(fieldName, raw))
        ELSE Returned(r.value)

\* std::getline(ss, field, ','): the text before the next comma, and what is
\* left of the stream after it
FirstComma(s) ==
    IF \E i \in 1..Len(s) : s[i] = ","
    THEN CHOOSE i \in 1..Len(s) :
            s[i] = "," /\ \A j \in 1..(i - 1) : s[j] # ","
    ELSE Len(s) + 1

GetlineField(s) == SubSeq(s, 1, FirstComma(s) - 1)
AfterField(s)   == SubSeq(s, FirstComma(s) + 1, Len(s))

parseRow(line, lineNo) ==
    LET sideStr  == GetlineField(line)
        priceStr == GetlineField(AfterField(line))
        sizeStr  == GetlineField(AfterField(AfterField(line)))
        side     == parseSide(trim(sideStr))
        price    == parseDouble(trim(priceStr), "price")
        size     == parseDouble(trim(sizeStr), "size")
    IN  IF trim(sideStr) = <<>> \/ trim(priceStr) = <<>> \/ trim(sizeStr) = <<>>
            THEN Thrown(EmptyFields(lineNo))
        ELSE IF side.thrown THEN side
        ELSE IF price.thrown THEN price
        ELSE IF size.thrown THEN size
        ELSE Returned([side |-> side.value, price |-> price.value,
                       size |-> size.value])

-----------------------------------------------------------------------------
(* Book Loader: the exceptions of loadCSV, and std::sort *)

\* std::to_string(double): "%f", six digits after the point (in millionths)
to_string(x) == [millionths |-> (x.n * 1000000) \div x.d]

CannotOpen == [type |-> "runtime_error", msg |-> "Cannot open file"]
NoBids     == [type |-> "runtime_error", msg |-> "No bids found in file."]
NoAsks     == [type |-> "runtime_error", msg |-> "No asks found in file."]

CrossedBook(bestBid, bestAsk) ==
    [type |-> "runtime_error", msg |-> "Crossed book",
     bestBid |-> to_string(bestBid), bestAsk |-> to_string(bestAsk)]

NotEnoughLiquidity(verb, targetQty) ==
    [type |-> "runtime_error", msg |-> "Not enough liquidity",
     verb |-> verb, qty |-> to_string(targetQty)]

EmptyBook == [bids |-> <<>>, asks |-> <<>>]

\* the crossed-book check with > in place of >=
IsCrossed_Strict(bids, asks) == DGt(bids[1].price, asks[1].price)

\* the crossed-book check left out
IsCrossed_Never(bids, asks) == FALSE

\* if (book.bids[0].price >= book.asks[0].price)
IsCrossed(bids, asks) == DGe(bids[1].price, asks[1].price)

\* every order of seq, in every order
Arrangements(seq) ==
    LET n == Len(seq)
        bij == {f \in [1..n -> 1..n] : \A i, j \in 1..n : f[i] = f[j] => i = j}
    IN  {[i \in 1..n |-> seq[f[i]]] : f \in bij}

\* the bids left in the order of the file
SortBids_Unsorted(bids) == {bids}

\* std::sort(bids, a.price > b.price): the orders rearranged so that no order
\* compares before one placed ahead of it.  std::sort is not stable: orders
\* with equal prices come out in any order.
SortBids(bids) ==
    {q \in Arrangements(bids) :
        \A i, j \in 1..Len(q) : i < j => ~DGt(q[j].price, q[i].price)}

\* std::sort(asks, a.price < b.price)
SortAsks(asks) ==
    {q \in Arrangements(asks) :
        \A i, j \in 1..Len(q) : i < j => ~DLt(q[j].price, q[i].price)}

-----------------------------------------------------------------------------
(* Depth Aggregator *)

RECURSIVE DepthLoop(_, _, _, _, _)
DepthLoop(orders, i, minPrice, maxPrice, total) ==
    IF i > Len(orders) THEN total
    ELSE DepthLoop(orders, i + 1, minPrice, maxPrice,
            IF DGe(orders[i].price, minPrice) /\ DLe(orders[i].price, maxPrice)
            THEN DAdd(total, orders[i].size)
            ELSE total)

\* the band taken without its two ends
calcDepth_OpenBand(orders, minPrice, maxPrice) ==
    DepthLoop(SelectSeq(orders, LAMBDA o : o.price # minPrice /\ o.price # maxPrice),
              1, minPrice, maxPrice, Zero)

calcDepth(orders, minPrice, maxPrice) ==
    DepthLoop(orders, 1, minPrice, maxPrice, Zero)

-----------------------------------------------------------------------------
(* VWAP Sweeper.  Each loop also returns `fills`: the value of `filled` in   *)
(* every iteration that ran, in order (a level the break skipped has none). *)

\* the buy loop taking each level whole, without min(remaining, size)
RECURSIVE BuyLoop_WholeLevel(_, _, _, _, _)
BuyLoop_WholeLevel(asks, i, remaining, totalCost, fills) ==
    IF i > Len(asks) \/ DLe(remaining, Zero)
    THEN [remaining |-> remaining, total |-> totalCost, fills |-> fills]
    ELSE LET filled == asks[i].size
         IN  BuyLoop_WholeLevel(asks, i + 1, DSub(remaining, filled),
                     DAdd(totalCost, DMul(filled, asks[i].price)),
                     Append(fills, filled))

RECURSIVE BuyLoop(_, _, _, _, _)
BuyLoop(asks, i, remaining, totalCost, fills) ==
    IF i > Len(asks) \/ DLe(remaining, Zero)
    THEN [remaining |-> remaining, total |-> totalCost, fills |-> fills]
    ELSE LET filled == DMin(remaining, asks[i].size)
         IN  BuyLoop(asks, i + 1, DSub(remaining, filled),
                     DAdd(totalCost, DMul(filled, asks[i].price)),
                     Append(fills, filled))

calcVWAPBuy(asks, targetQty) ==
    LET r == BuyLoop(asks, 1, targetQty, Zero, <<>>)
    IN  IF DGt(r.remaining, Zero)
        THEN Thrown(NotEnoughLiquidity("buy", targetQty))
        ELSE Returned(DDiv(r.total, targetQty))

\* the sell loop stopping one level short
RECURSIVE SellLoop_OneShort(_, _, _, _, _)
SellLoop_OneShort(bids, i, remaining, totalRevenue, fills) ==
    IF i >= Len(bids) \/ DLe(remaining, Zero)
    THEN [remaining |-> remaining, total |-> totalRevenue, fills |-> fills]
    ELSE LET filled == DMin(remaining, bids[i].size)
         IN  SellLoop_OneShort(bids, i + 1, DSub(remaining, filled),
                      DAdd(totalRevenue, DMul(filled, bids[i].price)),
                      Append(fills, filled))

RECURSIVE SellLoop(_, _, _, _, _)
SellLoop(bids, i, remaining, totalRevenue, fills) ==
    IF i > Len(bids) \/ DLe(remaining, Zero)
    THEN [remaining |-> remaining, total |-> totalRevenue, fills |-> fills]
    ELSE LET filled == DMin(remaining, bids[i].size)
         IN  SellLoop(bids, i + 1, DSub(remaining, filled),
                      DAdd(totalRevenue, DMul(filled, bids[i].price)),
                      Append(fills, filled))

\* the sell sweep with its liquidity check off by one comparison (>= for >)
calcVWAPSell_ThrowsOnExactFill(bids, targetQty) ==
    LET r == SellLoop(bids, 1, targetQty, Zero, <<>>)
    IN  IF DGe(r.remaining, Zero)
        THEN Thrown(NotEnoughLiquidity("sell", targetQty))
        ELSE Returned(DDiv(r.total, targetQty))

calcVWAPSell(bids, targetQty) ==
    LET r == SellLoop(bids, 1, targetQty, Zero, <<>>)
    IN  IF DGt(r.remaining, Zero)
        THEN Thrown(NotEnoughLiquidity("sell", targetQty))
        ELSE Returned(DDiv(r.total, targetQty))

-----------------------------------------------------------------------------
(* Analytics Orchestrator *)

calcStats(bk, depthPct, targetQty) ==
    LET bestBid   == bk.bids[1].price
        bestAsk   == bk.asks[1].price
        midPrice  == DDiv(DAdd(bestBid, bestAsk), DInt(2))
        spread    == DSub(bestAsk, bestBid)
        spreadPct == DMul(DDiv(spread, midPrice), DInt(100))
        lower     == DMul(midPrice, DSub(DInt(1), DDiv(depthPct, DInt(100))))
        upper     == DMul(midPrice, DAdd(DInt(1), DDiv(depthPct, DInt(100))))
        vwapBuy   == calcVWAPBuy(bk.asks, targetQty)
        vwapSell  == calcVWAPSell(bk.bids, targetQty)
    IN  IF vwapBuy.thrown THEN vwapBuy
        ELSE IF vwapSell.thrown THEN vwapSell
        ELSE Returned([bestBid |-> bestBid, bestAsk |-> bestAsk,
                       midPrice |-> midPrice, spread |-> spread,
                       spreadPct |-> spreadPct,
                       bidDepth |-> calcDepth(bk.bids, lower, upper),
                       askDepth |-> calcDepth(bk.asks, lower, upper),
                       vwapBuy |-> vwapBuy.value, vwapSell |-> vwapSell.value])

-----------------------------------------------------------------------------
(* Inputs: the lines a file is made of *)

\* "side,price,size"
HeaderRow == <<"s", "i", "d", "e", ",", "p", "r", "i", "c", "e", ",", "s", "i", "z", "e">>

\* "bid,99,40"
Bid99 == <<"b", "i", "d", ",", "9", "9", ",", "4", "0">>

\* "BID, 99.0 ,20"
Bid99b == <<"B", "I", "D", ",", " ", "9", "9", ".", "0", " ", ",", "2", "0">>

\* "bid,98.5,20"
Bid98 == <<"b", "i", "d", ",", "9", "8", ".", "5", ",", "2", "0">>

\* "bid,100,40"
Bid100 == <<"b", "i", "d", ",", "1", "0", "0", ",", "4", "0">>

\* "ask,100,15"
Ask100 == <<"a", "s", "k", ",", "1", "0", "0", ",", "1", "5">>

\* "Ask,101,40\r"
Ask101 == <<"A", "s", "k", ",", "1", "0", "1", ",", "4", "0", "\r">>

\* ""
EmptyLine == <<>>

\* " \t"
SpaceLine == <<" ", "\t">>

\* "buy,100.0,5"
BuyRow == <<"b", "u", "y", ",", "1", "0", "0", ".", "0", ",", "5">>

\* "bid,-1.0,5"
NegativeRow == <<"b", "i", "d", ",", "-", "1", ".", "0", ",", "5">>

\* ",100.0,5"
NoSideRow == <<",", "1", "0", "0", ".", "0", ",", "5">>

FirstLines == {HeaderRow, Bid99}

DataLines == {Bid99, Bid99b, Bid98, Bid100, Ask100, Ask101, EmptyLine, SpaceLine,
              BuyRow, NegativeRow, NoSideRow}

\* the most data lines a file holds after its first line
MaxLines == 3

Files ==
    {<<>>} \cup
    {<<h>> \o d : h \in FirstLines,
                  d \in UNION {[1..n -> DataLines] : n \in 0..MaxLines}}

(* main's constants *)
DEPTH_PCT  == Dbl(1, 2)
TARGET_QTY == DInt(40)

(* the parameters other callers give calcStats *)
DepthPcts  == {Dbl(1, 2), DInt(2)}
TargetQtys == {DInt(10), DInt(40), DInt(50)}

-----------------------------------------------------------------------------
(* main and loadCSV, step by step *)

Running  == <<>>
NoStats  == [none |-> TRUE]
NoCall   == [fn |-> "none"]
Pending  == [pending |-> TRUE]

NoHist == [parseRow |-> 0, calcStats |-> 0, printStats |-> 0]

Init ==
    /\ openable \in BOOLEAN
    /\ file \in (IF openable THEN Files ELSE {<<>>})
    /\ pc = "loadCSV"
    /\ pos = 0
    /\ lineNumber = 0
    /\ book = EmptyBook
    /\ exc = NoExc
    /\ stats = NoStats
    /\ out = <<>>
    /\ errOut = <<>>
    /\ exitCode = Running
    /\ hist = NoHist
    /\ call = NoCall
    /\ ret = Pending

\* loadCSV throws e: its local book is destroyed, main's book never exists
Throw(e) ==
    /\ exc' = e
    /\ pc' = "catch"
    /\ book' = EmptyBook

\* std::ifstream file(filename); if (!file.is_open()) throw
OpenFile ==
    /\ pc = "loadCSV"
    /\ IF openable
       THEN pc' = "header" /\ UNCHANGED <<exc, book>>
       ELSE Throw(CannotOpen)
    /\ UNCHANGED <<file, openable, pos, lineNumber, stats, out, errOut,
                   exitCode, hist, call, ret>>

\* std::getline(file, line); lineNumber++;
SkipHeader ==
    /\ pc = "header"
    /\ pos' = IF Len(file) >= 1 THEN 1 ELSE 0
    /\ lineNumber' = lineNumber + 1
    /\ pc' = "loop"
    /\ UNCHANGED <<file, openable, book, exc, stats, out, errOut, exitCode,
                   hist, call, ret>>

\* one iteration of while (std::getline(file, line))
ReadLine ==
    /\ pc = "loop"
    /\ pos < Len(file)
    /\ pos' = pos + 1
    /\ lineNumber' = lineNumber + 1
    /\ LET line == file[pos + 1]
           r    == parseRow(line, lineNumber + 1)
       IN  IF trim(line) = <<>>
           THEN UNCHANGED <<pc, book, exc, hist>>
           ELSE /\ hist' = [hist EXCEPT !.parseRow = @ + 1]
                /\ IF r.thrown
                   THEN Throw(r.exc)
                   ELSE /\ book' = IF r.value.side = "BID"
                                   THEN [book EXCEPT !.bids = Append(@, r.value)]
                                   ELSE [book EXCEPT !.asks = Append(@, r.value)]
                        /\ UNCHANGED <<pc, exc>>
    /\ UNCHANGED <<file, openable, stats, out, errOut, exitCode, call, ret>>

\* after the loop: the empty-side checks, the two sorts, the crossed-book
\* check, and the return to main
EndOfFile ==
    /\ pc = "loop"
    /\ pos = Len(file)
    /\ IF book.bids = <<>> THEN Throw(NoBids)
       ELSE IF book.asks = <<>> THEN Throw(NoAsks)
       ELSE \E bids \in SortBids(book.bids), asks \in SortAsks(book.asks) :
               IF IsCrossed(bids, asks)
               THEN Throw(CrossedBook(bids[1].price, asks[1].price))
               ELSE /\ book' = [bids |-> bids, asks |-> asks]
                    /\ pc' = "calcStats"
                    /\ UNCHANGED exc
    /\ UNCHANGED <<file, openable, pos, lineNumber, stats, out, errOut,
                   exitCode, hist, call, ret>>

\* Stats stats = calcStats(book, depthPct, targetQty)
CalcStats(depthPct, targetQty) ==
    /\ pc = "calcStats"
    /\ hist' = [hist EXCEPT !.calcStats = @ + 1]
    /\ LET r == calcStats(book, depthPct, targetQty)
       IN  IF r.thrown
           THEN exc' = r.exc /\ pc' = "catch" /\ UNCHANGED stats
           ELSE stats' = r.value /\ pc' = "printStats" /\ UNCHANGED exc
    /\ UNCHANGED <<file, openable, pos, lineNumber, book, out, errOut,
                   exitCode, call, ret>>

\* printStats(stats, DEPTH_PCT, TARGET_QTY)
PrintStats ==
    /\ pc = "printStats"
    /\ out' = Append(out, [stats |-> stats, depthPct |-> DEPTH_PCT,
                           targetQty |-> TARGET_QTY])
    /\ hist' = [hist EXCEPT !.printStats = @ + 1]
    /\ pc' = "return"
    /\ UNCHANGED <<file, openable, pos, lineNumber, book, exc, stats, errOut,
                   exitCode, call, ret>>

\* return 0;
Return0 ==
    /\ pc = "return"
    /\ exitCode' = <<0>>
    /\ pc' = "exited"
    /\ UNCHANGED <<file, openable, pos, lineNumber, book, exc, stats, out,
                   errOut, hist, call, ret>>

\* a handler that prints the diagnostic and falls through to return 0
Catch_Return0 ==
    /\ pc = "catch"
    /\ errOut' = Append(errOut, exc)
    /\ pc' = "return"
    /\ UNCHANGED <<file, openable, pos, lineNumber, book, exc, stats, out,
                   exitCode, hist, call, ret>>

\* catch (const std::exception& e) { std::cerr << e.what(); return 1; }
Catch ==
    /\ pc = "catch"
    /\ errOut' = Append(errOut, exc)
    /\ exitCode' = <<1>>
    /\ pc' = "exited"
    /\ UNCHANGED <<file, openable, pos, lineNumber, book, exc, stats, out,
                   hist, call, ret>>

Next ==
    \/ OpenFile
    \/ SkipHeader
    \/ ReadLine
    \/ EndOfFile
    \/ CalcStats(DEPTH_PCT, TARGET_QTY)
    \/ PrintStats
    \/ Return0
    \/ Catch

Spec == Init /\ [][Next]_vars

\* loadCSV, then calcStats with a caller's parameters: an exception leaves
\* to the caller
NextLib ==
    \/ OpenFile
    \/ SkipHeader
    \/ ReadLine
    \/ EndOfFile
    \/ \E d \in DepthPcts, q \in TargetQtys : CalcStats(d, q)

SpecLib == Init /\ [][NextLib]_vars

-----------------------------------------------------------------------------
(* Direct calls of parseRow, calcDepth and the two sweeps *)

\* the most price levels a side holds
MaxLevels == 3

Prices == {DInt(1), Dbl(3, 2), DInt(2)}
Sizes  == {Dbl(1, 2), DInt(1), DInt(2)}

Levels(side) ==
    UNION {[1..n -> [side : {side}, price : Prices, size : Sizes]] :
              n \in 0..MaxLevels}

\* asks best first (cheapest first), bids best first (dearest first)
AskLevels ==
    {q \in Levels("ASK") :
        \A i \in 1..(Len(q) - 1) : DLe(q[i].price, q[i + 1].price)}
BidLevels ==
    {q \in Levels("BID") :
        \A i \in 1..(Len(q) - 1) : DGe(q[i].price, q[i + 1].price)}

\* target quantities: every half unit up to more than a side can hold
Qtys == {Dbl(k, 2) : k \in 1..(4 * MaxLevels + 2)}

\* band ends for calcDepth
PriceBounds == {Dbl(k, 2) : k \in 1..5}

\* the texts a field of a row is drawn from:
\* "", " ", "bid", " Ask", "buy", "1", "2.5 ", "0", "-1", "1x", "inf"
FieldTexts ==
    {<<>>,
     <<" ">>,
     <<"b", "i", "d">>,
     <<" ", "A", "s", "k">>,
     <<"b", "u", "y">>,
     <<"1">>,
     <<"2", ".", "5", " ">>,
     <<"0">>,
     <<"-", "1">>,
     <<"1", "x">>,
     <<"i", "n", "f">>}

Comma == <<",">>

\* rows of one, two and three fields, and rows with a fourth field
RowTexts ==
    LET three == {a \o Comma \o b \o Comma \o c :
                     a \in FieldTexts, b \in FieldTexts, c \in FieldTexts}
    IN  FieldTexts
        \cup {a \o Comma \o b : a \in FieldTexts, b \in FieldTexts}
        \cup three
        \cup {r \o Comma \o <<"z">> : r \in three}

IdleMain ==
    /\ openable = FALSE
    /\ file = <<>>
    /\ pc = "idle"
    /\ pos = 0
    /\ lineNumber = 0
    /\ book = EmptyBook
    /\ exc = NoExc
    /\ stats = NoStats
    /\ out = <<>>
    /\ errOut = <<>>
    /\ exitCode = Running
    /\ hist = NoHist

InitCalls ==
    /\ IdleMain
    /\ ret = Pending
    /\ \/ \E r \in RowTexts, n \in {2, 3} :
             call = [fn |-> "parseRow", line |-> r, lineNo |-> n]
       \/ \E l \in AskLevels, q \in Qtys :
             call = [fn |-> "calcVWAPBuy", levels |-> l, targetQty |-> q]
       \/ \E l \in BidLevels, q \in Qtys :
             call = [fn |-> "calcVWAPSell", levels |-> l, targetQty |-> q]
       \/ \E l \in AskLevels \cup BidLevels, lo \in PriceBounds,
             hi \in PriceBounds :
             call = [fn |-> "calcDepth", levels |-> l, minPrice |-> lo,
                     maxPrice |-> hi]

CallParseRow ==
    /\ call.fn = "parseRow"
    /\ ret = Pending
    /\ ret' = parseRow(call.line, call.lineNo)
    /\ UNCHANGED <<mainVars, call>>

CallVWAPBuy ==
    /\ call.fn = "calcVWAPBuy"
    /\ ret = Pending
    /\ ret' = calcVWAPBuy(call.levels, call.targetQty)
    /\ UNCHANGED <<mainVars, call>>

CallVWAPSell ==
    /\ call.fn = "calcVWAPSell"
    /\ ret = Pending
    /\ ret' = calcVWAPSell(call.levels, call.targetQty)
    /\ UNCHANGED <<mainVars, call>>

CallDepth ==
    /\ call.fn = "calcDepth"
    /\ ret = Pending
    /\ ret' = Returned(calcDepth(call.levels, call.minPrice, call.maxPrice))
    /\ UNCHANGED <<mainVars, call>>

NextCalls ==
    \/ CallParseRow
    \/ CallVWAPBuy
    \/ CallVWAPSell
    \/ CallDepth

SpecCalls == InitCalls /\ [][NextCalls]_vars

-----------------------------------------------------------------------------
(* Properties of the Book Loader *)

\* loadCSV has just returned its Orderbook to the caller
Loaded == pc = "calcStats"

\* loadCSV has thrown (calcStats was never entered)
LoadFailed == pc = "catch" /\ hist.calcStats = 0

\* the 1-based numbers of the non-blank lines after the first, up to line k
RowNumbers(k) == {i \in 2..k : trim(file[i]) # <<>>}

AllRowsParse == \A i \in RowNumbers(Len(file)) : ~parseRow(file[i], i).thrown

RowsOfSide(side) ==
    {i \in RowNumbers(Len(file)) : parseRow(file[i], i).value.side = side}

\* orders holds exactly the orders of the rows numbered in rows
HoldsExactly(orders, rows) ==
    \E f \in [1..Len(orders) -> rows] :
        /\ \A i, j \in 1..Len(orders) : f[i] = f[j] => i = j
        /\ \A r \in rows : \E i \in 1..Len(orders) : f[i] = r
        /\ \A i \in 1..Len(orders) : orders[i] = parseRow(file[f[i]], f[i]).value

DescendingFrom(orders, strict) ==
    \A i \in 1..(Len(orders) - 1) :
        IF strict THEN DGt(orders[i].price, orders[i + 1].price)
                  ELSE DGe(orders[i].price, orders[i + 1].price)

AscendingFrom(orders, strict) ==
    \A i \in 1..(Len(orders) - 1) :
        IF strict THEN DLt(orders[i].price, orders[i + 1].price)
                  ELSE DLe(orders[i].price, orders[i + 1].price)

\* C1 as stated: every book loadCSV returns has its bids strictly descending
\* by price, its asks strictly ascending, and bids[0].price < asks[0].price,
\* also when two rows of one side carry the same price.
C1_StrictlySorted ==
    Loaded =>
        /\ DescendingFrom(book.bids, TRUE)
        /\ AscendingFrom(book.asks, TRUE)
        /\ DLt(book.bids[1].price, book.asks[1].price)

\* C1 amended: every book loadCSV returns has its bids descending by price
\* (each bid's price is greater than or equal to the next one's), its asks
\* ascending (each less than or equal to the next), both sides non-empty, and
\* bids[0].price < asks[0].price.
C1_SortedBook ==
    Loaded =>
        /\ book.bids # <<>> /\ book.asks # <<>>
        /\ DescendingFrom(book.bids, FALSE)
        /\ AscendingFrom(book.asks, FALSE)
        /\ DLt(book.bids[1].price, book.asks[1].price)

\* a returned book that holds two bids of one price and different sizes
C1_Witness ==
    /\ Loaded
    /\ Len(book.bids) = 2
    /\ book.bids[1].price = book.bids[2].price
    /\ book.bids[1].size # book.bids[2].size

\* C5: when loadCSV fails because the row parser rejected a row (empty
\* field, unknown side, invalid number), the exception it propagates carries
\* the 1-based number of that line in the file (the header is line 1, blank
\* lines are counted).
C5_ParserFailureCarriesLine ==
    (LoadFailed /\ exc.type = "invalid_argument") =>
        /\ "line" \in DOMAIN exc
        /\ exc.line = pos

\* C6: for a file that opens and whose rows all parse, loadCSV throws "No
\* bids" if no row after the first line is a bid, else "No asks" if none is
\* an ask, else "Crossed book" exactly if the highest bid price is >= the
\* lowest ask price, else returns a book holding exactly the parsed orders of
\* each side.
C6_LoadOutcome ==
    ((Loaded \/ LoadFailed) /\ openable /\ AllRowsParse) =>
        LET bidRows == RowsOfSide("BID")
            askRows == RowsOfSide("ASK")
            price(i) == parseRow(file[i], i).value.price
            highest == CHOOSE b \in bidRows :
                          \A o \in bidRows : DGe(price(b), price(o))
            lowest  == CHOOSE a \in askRows :
                          \A o \in askRows : DLe(price(a), price(o))
        IN  IF bidRows = {} THEN LoadFailed /\ exc = NoBids
            ELSE IF askRows = {} THEN LoadFailed /\ exc = NoAsks
            ELSE IF DGe(price(highest), price(lowest))
                THEN /\ LoadFailed
                     /\ exc = CrossedBook(price(highest), price(lowest))
            ELSE /\ Loaded
                 /\ HoldsExactly(book.bids, bidRows)
                 /\ HoldsExactly(book.asks, askRows)

\* a file whose first line is a bid row, refused because the best bid of the
\* rows after it equals the best ask
C6_Witness ==
    /\ LoadFailed
    /\ exc.msg = "Crossed book"
    /\ exc.bestBid = exc.bestAsk
    /\ file[1] = Bid99
    /\ Len(file) = 4

-----------------------------------------------------------------------------
(* Properties of main and calcStats *)

Failed == exc.type # "none"

\* the guard of one of main's steps holds
MainCanStep ==
    \/ pc \in {"loadCSV", "header", "calcStats", "printStats", "return", "catch"}
    \/ pc = "loop" /\ pos <= Len(file)

\* C7: main is fail-fast and all-or-nothing.  The report is printed only
\* after loadCSV and both sweeps have succeeded; when loading fails calcStats
\* is never called; the first invalid row is the last row parsed; when a
\* sweep fails no Stats is returned and nothing is printed; a failing run
\* prints exactly one diagnostic and returns 1, a successful run returns 0;
\* and until main has returned one of its steps can be taken.
C7_FailFast ==
    /\ out # <<>> =>
          /\ ~Failed
          /\ hist.calcStats = 1
          /\ ~calcVWAPBuy(book.asks, TARGET_QTY).thrown
          /\ ~calcVWAPSell(book.bids, TARGET_QTY).thrown
          /\ out = <<[stats |-> calcStats(book, DEPTH_PCT, TARGET_QTY).value,
                      depthPct |-> DEPTH_PCT, targetQty |-> TARGET_QTY]>>
    /\ (Failed /\ exc.msg # "Not enough liquidity") => hist.calcStats = 0
    /\ exc.type = "invalid_argument" =>
          /\ pos \in RowNumbers(Len(file))
          /\ parseRow(file[pos], pos).thrown
          /\ \A i \in RowNumbers(pos - 1) : ~parseRow(file[i], i).thrown
          /\ hist.parseRow = Cardinality(RowNumbers(pos))
    /\ Failed => "none" \in DOMAIN stats /\ out = <<>> /\ hist.printStats = 0
    /\ pc = "exited" =>
          IF Failed
          THEN exitCode = <<1>> /\ errOut = <<exc>>
          ELSE exitCode = <<0>> /\ errOut = <<>> /\ Len(out) = 1
    /\ pc # "exited" => exitCode = <<>> /\ errOut = <<>> /\ MainCanStep

\* main has returned 1 after a sweep found too little liquidity in a loaded
\* book, with one diagnostic and no report
C7_Witness ==
    /\ pc = "exited"
    /\ exitCode = <<1>>
    /\ exc.msg = "Not enough liquidity"
    /\ Len(errOut) = 1
    /\ out = <<>>
    /\ hist.parseRow = 3

\* C10: for every book loadCSV returns and every target quantity for which
\* calcStats succeeds, vwapSell <= bestBid < midPrice < bestAsk <= vwapBuy
\* and spread > 0.
C10_StatsOrdered ==
    pc = "printStats" =>
        /\ DLe(stats.vwapSell, stats.bestBid)
        /\ DLt(stats.bestBid, stats.midPrice)
        /\ DLt(stats.midPrice, stats.bestAsk)
        /\ DLe(stats.bestAsk, stats.vwapBuy)
        /\ DGt(stats.spread, Zero)

\* calcStats has succeeded on a book whose sell sweep went past the best bid
C10_Witness ==
    /\ pc = "printStats"
    /\ DLt(stats.vwapSell, stats.bestBid)
    /\ Len(book.bids) = 2

-----------------------------------------------------------------------------
(* Properties of the VWAP Sweeper and the Depth Aggregator *)

RECURSIVE SumOf(_)
SumOf(xs) == IF xs = <<>> THEN Zero ELSE DAdd(Head(xs), SumOf(Tail(xs)))

SizesOf(levels) == [i \in 1..Len(levels) |-> levels[i].size]
TotalSize(levels) == SumOf(SizesOf(levels))

\* the fill of level i as the claims define it: min(quantity still remaining
\* before level i, size_i), where the quantity remaining before level 1 is
\* targetQty and each level takes its fill from it
RECURSIVE RemainingBefore(_, _, _)
FillAt(levels, targetQty, i) ==
    DMin(RemainingBefore(levels, targetQty, i), levels[i].size)
RemainingBefore(levels, targetQty, i) ==
    IF i = 1 THEN targetQty
    ELSE DSub(RemainingBefore(levels, targetQty, i - 1),
              FillAt(levels, targetQty, i - 1))

FillsOf(levels, targetQty) ==
    [i \in 1..Len(levels) |-> FillAt(levels, targetQty, i)]

\* the fills the code made, a level its loop never reached counting as 0
CodeFills(fills, levels) ==
    [i \in 1..Len(levels) |-> IF i <= Len(fills) THEN fills[i] ELSE Zero]

SweepCalled == call.fn \in {"calcVWAPBuy", "calcVWAPSell"} /\ ~("pending" \in DOMAIN ret)

\* the loop of the sweep that was called, run on its arguments
SweepLoopOfCall ==
    IF call.fn = "calcVWAPBuy"
    THEN BuyLoop(call.levels, 1, call.targetQty, Zero, <<>>)
    ELSE SellLoop(call.levels, 1, call.targetQty, Zero, <<>>)

\* C2: for best-first levels and 0 < targetQty <= total resting size, both
\* sweeps return (sum of fill_i * price_i) / targetQty with fill_i =
\* min(quantity remaining before level i, size_i); once the remaining
\* quantity is zero every later level has fill 0; the fills sum to targetQty.
C2_SweepValue ==
    (SweepCalled /\ DLe(call.targetQty, TotalSize(call.levels))) =>
        LET levels == call.levels
            q      == call.targetQty
            fills  == FillsOf(levels, q)
        IN  /\ ~ret.thrown
            /\ ret.value =
                  DDiv(SumOf([i \in 1..Len(levels) |->
                                 DMul(fills[i], levels[i].price)]), q)
            /\ CodeFills(SweepLoopOfCall.fills, levels) = fills
            /\ \A i \in 1..Len(levels) :
                  RemainingBefore(levels, q, i) = Zero =>
                      \A j \in i..Len(levels) : fills[j] = Zero
            /\ SumOf(fills) = q

\* a buy sweep that filled one level whole, a second in part, and left a third
C2_Witness ==
    /\ SweepCalled
    /\ call.fn = "calcVWAPBuy"
    /\ ~ret.thrown
    /\ Len(call.levels) = 3
    /\ Len(SweepLoopOfCall.fills) = 2
    /\ SweepLoopOfCall.fills[1] = call.levels[1].size
    /\ DLt(SweepLoopOfCall.fills[2], call.levels[2].size)
    /\ DLt(call.levels[1].price, call.levels[2].price)

\* C3: a sweep with targetQty above the side's total resting size throws the
\* insufficient-liquidity error; with 0 < targetQty <= total it does not.
C3_InsufficientLiquidity ==
    SweepCalled =>
        IF DGt(call.targetQty, TotalSize(call.levels))
        THEN /\ ret.thrown
             /\ ret.exc = NotEnoughLiquidity(
                    IF call.fn = "calcVWAPBuy" THEN "buy" ELSE "sell",
                    call.targetQty)
        ELSE ~ret.thrown

\* a sell sweep that asked for half a unit more than two levels hold
C3_Witness ==
    /\ SweepCalled
    /\ call.fn = "calcVWAPSell"
    /\ Len(call.levels) = 2
    /\ call.targetQty = DAdd(TotalSize(call.levels), Dbl(1, 2))
    /\ ret.thrown

\* C8: a sweep with targetQty equal to the side's (positive) total resting
\* size fills every level completely, does not throw, and returns
\* (sum of size_i * price_i) / (sum of size_i).
C8_ExactFill ==
    (SweepCalled /\ call.targetQty = TotalSize(call.levels)) =>
        LET levels == call.levels
        IN  /\ ~ret.thrown
            /\ SweepLoopOfCall.fills = SizesOf(levels)
            /\ SweepLoopOfCall.remaining = Zero
            /\ ret.value =
                  DDiv(SumOf([i \in 1..Len(levels) |->
                                 DMul(levels[i].size, levels[i].price)]),
                       TotalSize(levels))

\* a sell sweep that took all of three levels of three prices
C8_Witness ==
    /\ SweepCalled
    /\ call.fn = "calcVWAPSell"
    /\ Len(call.levels) = 3
    /\ call.targetQty = TotalSize(call.levels)
    /\ DGt(call.levels[1].price, call.levels[2].price)
    /\ DGt(call.levels[2].price, call.levels[3].price)
    /\ ~ret.thrown

DepthCalled == call.fn = "calcDepth" /\ ~("pending" \in DOMAIN ret)

\* C9: calcDepth returns the sum of the sizes of exactly the orders with
\* minPrice <= price <= maxPrice, 0 when there is none (as when minPrice >
\* maxPrice), and never less for a band that contains the band.
C9_DepthMonotonic ==
    DepthCalled =>
        LET inBand == SelectSeq(call.levels,
                        LAMBDA o : /\ DLe(call.minPrice, o.price)
                                   /\ DLe(o.price, call.maxPrice))
        IN  /\ ret.value = TotalSize(inBand)
            /\ inBand = <<>> => ret.value = Zero
            /\ DGt(call.minPrice, call.maxPrice) => ret.value = Zero
            /\ \A lo \in PriceBounds, hi \in PriceBounds :
                  (DLe(lo, call.minPrice) /\ DLe(call.maxPrice, hi)) =>
                      DGe(calcDepth(call.levels, lo, hi), ret.value)

\* a band whose two ends are prices of orders, one order lying outside it
C9_Witness ==
    /\ DepthCalled
    /\ Len(call.levels) = 3
    /\ call.levels[1].price = call.minPrice
    /\ call.levels[2].price = call.maxPrice
    /\ DLt(call.minPrice, call.maxPrice)
    /\ DGt(call.levels[3].price, call.maxPrice)
    /\ ret.value = DAdd(call.levels[1].size, call.levels[2].size)

-----------------------------------------------------------------------------
(* Properties of the Row Parser *)

ParseRowCalled == call.fn = "parseRow" /\ ~("pending" \in DOMAIN ret)

\* the text is a decimal number from its first character to its last: an
\* optional sign, digits, an optional point and digits, and nothing else
IsDecimalNumber(text) ==
    LET signed == Len(text) >= 1 /\ text[1] \in {"+", "-"}
        b      == IF signed THEN 2 ELSE 1
        ni     == DigitRun(text, b)
        dot    == b + ni <= Len(text) /\ text[b + ni] = "."
        nf     == IF dot THEN DigitRun(text, b + ni + 1) ELSE 0
    IN  /\ ni + nf > 0
        /\ (b - 1) + ni + (IF dot THEN 1 ELSE 0) + nf = Len(text)

\* the text is a finite number > 0
IsPositiveNumber(text) ==
    IsDecimalNumber(text) /\ DGt(stod(text).value, Zero)

\* C4: parseRow fails with the empty-fields error if any of the three fields
\* is empty after trimming; otherwise with the unknown-side error if the side
\* is not bid/ask (in any case); otherwise with the invalid-value error for
\* 'price' if the price is not a finite number > 0; otherwise with that error
\* for 'size' if the size is not a finite number > 0; otherwise it returns
\* the Order of that side, price and size, with price > 0 and size > 0.
C4_ParseRowPrecedence ==
    ParseRowCalled =>
        LET side  == trim(GetlineField(call.line))
            price == trim(GetlineField(AfterField(call.line)))
            size  == trim(GetlineField(AfterField(AfterField(call.line))))
        IN  IF side = <<>> \/ price = <<>> \/ size = <<>>
                THEN ret = Thrown(EmptyFields(call.lineNo))
            ELSE IF ToLowerStr(side) \notin {<<"b", "i", "d">>, <<"a", "s", "k">>}
                THEN ret = Thrown(UnknownSide(side))
            ELSE IF ~IsPositiveNumber(price)
                THEN ret = Thrown(InvalidValue("price", price))
            ELSE IF ~IsPositiveNumber(size)
                THEN ret = Thrown(InvalidValue("size", size))
            ELSE /\ ~ret.thrown
                 /\ ret.value.side =
                       (IF ToLowerStr(side) = <<"b", "i", "d">> THEN "BID" ELSE "ASK")
                 /\ ret.value.price = stod(price).value
                 /\ ret.value.size = stod(size).value
                 /\ DGt(ret.value.price, Zero)
                 /\ DGt(ret.value.size, Zero)

====
